---- MODULE Spec2Model ----
(***************************************************************************)
(* A model of dashboard/services/github_client.py: the GitHubClient that   *)
(* fetches a user's profile, repositories, languages and events from the   *)
(* GitHub REST API, derives a GitHubStats record and caches it.            *)
(*                                                                         *)
(*   Spec         get_user_stats as a state machine, one step per upstream *)
(*                request, with the cache and the error handlers           *)
(*   SpecStreaks  _calculate_streaks applied to bounded daily series       *)
(*   SpecLang     _aggregate_languages applied to bounded repository lists *)
(*   SpecPages    _get_all_pages applied to bounded listings               *)
(*   SpecContrib  _get_contribution_data applied to bounded event lists    *)
(*   SpecRecord   _get_contribution_data followed by _calculate_streaks    *)
(*   SpecRace     two get_user_stats calls that share the cache            *)
(***************************************************************************)
EXTENDS Integers, Sequences, FiniteSets, TLC

VARIABLES
    cache,          \* django cache: username -> serialized GitHubStats, or NoEntry
    token,          \* bool(self.token)
    pc,             \* position of the running get_user_stats call
    username,       \* its argument
    reqs,           \* upstream requests issued by the running (or last) call
    user_data,      \* local user_data
    page,           \* params['page'] of the running _get_all_pages
    all_items,      \* len(all_items) of the running _get_all_pages
    repos,          \* len(repos)
    lang_i,         \* repositories visited by the detail loop of _aggregate_languages
    contribution,   \* locals of _get_contribution_data handed to the return statement
    outcome,        \* how the last call ended: a record returned or an error raised
    fresh,          \* history: users with a successful call whose entry has not expired
    started_fresh,  \* history: fresh[username] when the running call started
    failure,        \* history: the request of the running (or last) call that failed
    returned_on_miss,   \* history: per user, the record returned by the miss that wrote the entry
    http_status,    \* status of the response stats_view renders for the call, 0 before
    daily,          \* input of _calculate_streaks
    today,          \* datetime.now().date() inside _calculate_streaks
    streaks,        \* result of _calculate_streaks
    spc,            \* whether _calculate_streaks has returned
    repo_list,      \* input of _aggregate_languages
    lpc,            \* position inside _aggregate_languages
    language_bytes, \* local language_bytes
    detail_i,       \* repositories visited by the detail loop
    attempted,      \* history: indexes of the repositories whose detail was requested
    languages,      \* result of _aggregate_languages
    upstream,       \* the listing _get_all_pages reads: the sizes of its pages
    params,         \* local params of _get_all_pages
    calls,          \* history: the params of every request of _get_all_pages
    fetched,        \* local all_items of _get_all_pages, item by item
    gpc,            \* position inside _get_all_pages
    now,            \* datetime.now() inside _get_contribution_data
    events,         \* the events the upstream lists for the user
    daily_contributions,    \* local dict: date string -> number of events
    monthly_contributions,  \* local dict: month string -> number of events
    counted,        \* locals commits_last_year, prs_last_year, issues_last_year, contributed_to
    daily_list,     \* local daily_list
    monthly_list,   \* local monthly_list
    contribution_data,      \* what _get_contribution_data returns, or that it raised
    cpc,            \* position inside _get_contribution_data
    clock,          \* what datetime.now() returns at this moment
    rpc,            \* per concurrent call: its position inside get_user_stats
    rdata,          \* per concurrent call: its local user_data
    rnow,           \* per concurrent call: its reading of the clock (line 221)
    rlist,          \* per concurrent call: the events listing it was answered
    rout            \* per concurrent call: the record returned or the error raised

clientVars == <<cache, token, pc, username, reqs, user_data, page, all_items, repos,
                lang_i, contribution, outcome, fresh, started_fresh, failure,
                returned_on_miss, http_status>>
streakVars == <<daily, today, streaks, spc>>
langVars   == <<repo_list, lpc, language_bytes, detail_i, attempted, languages>>
pageVars   == <<upstream, params, calls, fetched, gpc>>
contribVars == <<now, events, daily_contributions, monthly_contributions, counted,
                 daily_list, monthly_list, contribution_data, cpc>>
raceVars   == <<clock, rpc, rdata, rnow, rlist, rout>>
vars       == <<clientVars, streakVars, langVars, pageVars, contribVars, raceVars>>
otherThanClient == <<streakVars, langVars, pageVars, contribVars, raceVars>>

(***************************************************************************)
(* Bounds of the model                                                     *)
(***************************************************************************)
MaxPages  == 2      \* pages the upstream holds at most for one listing
ShortPage == 37     \* size of a page that is neither empty nor full
MaxDay    == 5      \* the daily series and today lie in the days 0..MaxDay
MaxCount  == 1      \* largest count of a day of the series
MaxRepos  == 11     \* longest repository list given to _aggregate_languages
MaxBase   == 2      \* a repository list repeats a pattern of at most MaxBase repositories
MaxFeed   == 3      \* pages of the listing given to _get_all_pages
MaxYears  == 1      \* years from which now is drawn
MaxEvents == 2      \* events of the listing given to _get_contribution_data

Users == {"octocat", "RATE_LIMIT"}

(***************************************************************************)
(* Values                                                                  *)
(***************************************************************************)
NoEntry   == <<>>          \* cache.get(...) -> None
NoneStr   == "<None>"      \* Python None where a string may stand
NoOutcome == [kind |-> "none"]
NoFailure == [endpoint |-> "none", status |-> 0, reset |-> <<>>]
NoRecord  == [username |-> NoneStr]    \* no record was returned
NoData    == [name |-> NoneStr, bio |-> NoneStr, public_repos |-> 0]
NoContribution == [commits_last_year |-> 0, prs_last_year |-> 0, issues_last_year |-> 0,
                   contributed_to |-> 0, contributed_to_bound |-> FALSE]

PerPage     == 100
DetailLimit == 10

Min(a, b) == IF a < b THEN a ELSE b

\* Bodies of GET /users/{username}
Profiles == { [name |-> NoneStr, bio |-> NoneStr, public_repos |-> 0],
              [name |-> "", bio |-> "", public_repos |-> 2],
              [name |-> "The Octocat", bio |-> "How people build software.",
               public_repos |-> 8] }

\* X-RateLimit-Reset as the characters of the header value; NoHeader when absent
NoHeader     == <<"absent">>
ResetHeaders == { NoHeader, <<>>, <<"7", "5", "0", "0">>, <<"s", "o", "o", "n">> }

OkResponse         == [kind |-> "ok", status |-> 200, reset |-> NoHeader]
TransportFailure   == [kind |-> "transport", status |-> 0, reset |-> NoHeader]
HttpFailure(s, h)  == [kind |-> "http", status |-> s, reset |-> h]
FailureResponses   == {TransportFailure}
                      \cup {HttpFailure(s, NoHeader) : s \in {404, 500}}
                      \cup {HttpFailure(403, h) : h \in ResetHeaders}
Responses          == {OkResponse} \cup FailureResponses

(***************************************************************************)
(* json.dumps(stats.__dict__) and json.loads(cached), lines 70 and 122     *)
(***************************************************************************)
StatsFields == <<"username", "name", "bio", "public_repos", "commits_last_year",
                 "pull_requests_last_year", "issues_last_year", "contributed_to">>

\* lines 14-39: the fields of the dataclass that hold a string or None
StrFields == {"username", "name", "bio"}

\* A JSON value as the text holds it: null, a string literal or a number literal
json_encode(k, v) ==
    IF k \in StrFields
    THEN IF v = NoneStr THEN <<"null">> ELSE <<"string", v>>
    ELSE <<"number", v>>

\* null is read as the empty string
json_decode_null_as_empty(literal) == IF literal[1] = "null" THEN "" ELSE literal[2]

json_decode(literal) == IF literal[1] = "null" THEN NoneStr ELSE literal[2]

\* the text is the members of the dict in insertion order
json_dumps(d) ==
    [i \in 1..Len(StatsFields) |-> <<StatsFields[i], json_encode(StatsFields[i], d[StatsFields[i]])>>]

json_loads(s) ==
    [k \in {s[i][1] : i \in 1..Len(s)} |->
        LET i == CHOOSE j \in 1..Len(s) : s[j][1] = k IN json_decode(s[i][2])]

(***************************************************************************)
(* The except clauses of get_user_stats, lines 126-162                     *)
(***************************************************************************)
Digits == <<"0", "1", "2", "3", "4", "5", "6", "7", "8", "9">>

DigitValue(c) == (CHOOSE k \in 1..10 : Digits[k] = c) - 1

\* int(s) raises ValueError unless s is a string of decimal digits
IsDecimal(s) == Len(s) > 0 /\ \A i \in 1..Len(s) : \E k \in 1..10 : Digits[k] = s[i]

RECURSIVE int(_)
int(s) == IF Len(s) = 0 THEN 0
          ELSE 10 * int(SubSeq(s, 1, Len(s) - 1)) + DigitValue(s[Len(s)])

\* datetime.fromtimestamp(t).strftime('%H:%M:%S UTC'): hour, minute, second of the day
strftime_HMS(t) == <<(t \div 3600) % 24, (t \div 60) % 60, t % 60>>

\* A raised ValueError; its message is text + flag + reset, in this order
ValueError(text, flag, reset) ==
    [kind |-> "error", exc |-> "ValueError", text |-> text, flag |-> flag, reset |-> reset]

NotFoundText  == "User not found on GitHub"
RateLimitText == "GitHub API rate limit exceeded."
ApiErrorText  == "GitHub API error"
NetworkText   == "Network error"
OtherText     == "Error fetching GitHub data"
IntErrorText  == "invalid literal for int() with base 10"
NoTokenFlag   == " RATE_LIMIT_NO_TOKEN"
WithTokenFlag == " RATE_LIMIT_WITH_TOKEN"

\* lines 130-154: the 403 branch
rate_limit_error(response, has_token) ==
    LET reset == IF response.reset = NoHeader THEN <<>> ELSE response.reset
        flag  == IF ~has_token THEN NoTokenFlag ELSE WithTokenFlag
    IN  IF Len(reset) = 0
        THEN ValueError(RateLimitText, flag, <<>>)
        ELSE IF IsDecimal(reset)
             THEN ValueError(RateLimitText, flag, strftime_HMS(int(reset)))
             \* int() raises inside the handler: that ValueError leaves the call
             ELSE ValueError(IntErrorText, "", <<>>)

\* the 404 branch is missing
http_error_no_404(response, has_token) ==
    IF response.status = 403 THEN rate_limit_error(response, has_token)
    ELSE ValueError(ApiErrorText, "", <<>>)

\* lines 126-158: except requests.exceptions.HTTPError
http_error(response, has_token) ==
    IF response.status = 404 THEN ValueError(NotFoundText, "", <<>>)
    ELSE IF response.status = 403 THEN rate_limit_error(response, has_token)
    ELSE ValueError(ApiErrorText, "", <<>>)

\* lines 126-162: the error get_user_stats raises for a failed profile or repos request
handle_exception(response, has_token) ==
    IF response.kind = "http" THEN http_error(response, has_token)
    ELSE ValueError(NetworkText, "", <<>>)

(***************************************************************************)
(* stats_view, views.py lines 29-93: the status of the response rendered   *)
(* for what get_user_stats returned or raised                              *)
(***************************************************************************)
Marker == "RATE_LIMIT"

NoResponse == 0

\* views.py line 72: str(e), the parts of the message in order.  The message of
\* line 129 of the client quotes the username of the call; the reset time that
\* may end the rate-limit message is digits and colons and is left out
error_message(err, u) ==
    IF err.text = NotFoundText
    THEN <<"User '", u, "' not found on GitHub">>
    ELSE <<err.text, err.flag>>

\* views.py line 73: 'RATE_LIMIT' in error_message, a substring test; of the
\* parts of a message only the two flags and the username RATE_LIMIT hold it
is_rate_limit(message) ==
    \E i \in 1..Len(message) : message[i] \in {NoTokenFlag, WithTokenFlag, Marker}

\* views.py lines 38-93
stats_view(out, u) ==
    IF out.kind = "ok" THEN 200
    ELSE IF out.exc = "ValueError"
         THEN IF is_rate_limit(error_message(out, u)) THEN 429 ELSE 404
         ELSE 500

(***************************************************************************)
(* get_user_stats, lines 62-124, called by stats_view (views.py line 40):  *)
(* the step that ends the call also renders the response                   *)
(***************************************************************************)
Request(ep, n) == [endpoint |-> ep, page |-> n]

Failed(ep, response) == [endpoint |-> ep, status |-> response.status, reset |-> response.reset]

\* the name is taken from the profile as it is
GitHubStats_name_as_given(u, data, c) ==
    [username |-> u,
     name |-> data.name,
     bio |-> data.bio,
     public_repos |-> data.public_repos,
     commits_last_year |-> c.commits_last_year,
     pull_requests_last_year |-> c.prs_last_year,
     issues_last_year |-> c.issues_last_year,
     contributed_to |-> c.contributed_to]

\* lines 93-118: the GitHubStats record
GitHubStats(u, data, c) ==
    [username |-> u,
     name |-> IF data.name = NoneStr \/ data.name = "" THEN u ELSE data.name,
     bio |-> data.bio,
     public_repos |-> data.public_repos,
     commits_last_year |-> c.commits_last_year,
     pull_requests_last_year |-> c.prs_last_year,
     issues_last_year |-> c.issues_last_year,
     contributed_to |-> c.contributed_to]

Returned(stats) == [kind |-> "ok", stats |-> stats]

\* the entry is looked up under a key that is never written
cache_hit_never(cached) == FALSE

\* line 69: if cached
cache_hit(cached) == cached # NoEntry

\* the error is cached as an entry of its own
Raise_caching(err) ==
    /\ outcome' = err
    /\ pc' = "idle"
    /\ cache' = [cache EXCEPT ![username] = << <<"username", json_encode("username", username)>> >>]
    /\ http_status' = stats_view(err, username)
    /\ UNCHANGED <<fresh, returned_on_miss>>

\* the error is noted and the request is issued again
Raise_and_retry(err) ==
    /\ outcome' = err
    /\ pc' = pc
    /\ http_status' = NoResponse
    /\ UNCHANGED <<cache, fresh, returned_on_miss>>

\* the call ends by raising err: nothing is written
Raise(err) ==
    /\ outcome' = err
    /\ pc' = "idle"
    /\ http_status' = stats_view(err, username)
    /\ UNCHANGED <<cache, fresh, returned_on_miss>>

\* lines 67-70
Call(u) ==
    /\ pc = "idle"
    /\ username' = u
    /\ reqs' = <<>>
    /\ started_fresh' = (u \in fresh)
    /\ failure' = NoFailure
    /\ user_data' = NoData
    /\ contribution' = NoContribution
    /\ page' = 0 /\ all_items' = 0 /\ repos' = 0 /\ lang_i' = 0
    /\ IF cache_hit(cache[u])
       THEN /\ outcome' = Returned(json_loads(cache[u]))
            /\ pc' = "idle"
            /\ http_status' = stats_view(outcome', u)
       ELSE /\ outcome' = NoOutcome
            /\ pc' = "profile"
            /\ http_status' = NoResponse
    /\ UNCHANGED <<cache, token, fresh, returned_on_miss, otherThanClient>>

\* line 74
FetchProfile ==
    /\ pc = "profile"
    /\ reqs' = Append(reqs, Request("profile", 0))
    /\ \E response \in Responses :
         IF response.kind = "ok"
         THEN /\ \E data \in Profiles : user_data' = data
              /\ pc' = "repos"
              /\ page' = 1
              /\ UNCHANGED <<outcome, cache, fresh, failure, returned_on_miss, http_status>>
         ELSE /\ Raise(handle_exception(response, token))
              /\ failure' = Failed("profile", response)
              /\ UNCHANGED <<user_data, page>>
    /\ UNCHANGED <<token, username, all_items, repos, lang_i, contribution, started_fresh,
                   otherThanClient>>

\* Sizes of the page the upstream can answer with: a listing has at most MaxPages pages
PageSizes(p) == IF p < MaxPages THEN {0, ShortPage, PerPage} ELSE {0, ShortPage}

\* the loop goes on after every page that is not empty
more_pages_unless_empty(n) == n # 0

\* lines 172-179: whether the loop of _get_all_pages goes on after a page of n items
more_pages(n) == n # 0 /\ ~(n < PerPage)

\* line 77: one iteration of _get_all_pages for /users/{username}/repos
FetchReposPage ==
    /\ pc = "repos"
    /\ reqs' = Append(reqs, Request("repos", page))
    /\ \E response \in Responses :
         IF response.kind = "ok"
         THEN /\ \E n \in PageSizes(page) :
                   IF more_pages(n)
                   THEN /\ all_items' = all_items + n
                        /\ page' = page + 1
                        /\ UNCHANGED <<pc, repos>>
                   ELSE /\ repos' = all_items + n
                        /\ all_items' = 0
                        /\ page' = 0
                        /\ pc' = "languages"
              /\ UNCHANGED <<outcome, cache, fresh, failure, returned_on_miss, http_status>>
         ELSE /\ Raise(handle_exception(response, token))
              /\ failure' = Failed("repos", response)
              /\ UNCHANGED <<all_items, page, repos>>
    /\ UNCHANGED <<token, username, user_data, lang_i, contribution, started_fresh,
                   otherThanClient>>

\* lines 195-203: one iteration of the detail loop; a failed request is skipped
FetchLanguages ==
    /\ pc = "languages"
    /\ lang_i < Min(DetailLimit, repos)
    /\ reqs' = Append(reqs, Request("languages", lang_i + 1))
    /\ \E response \in {OkResponse, TransportFailure, HttpFailure(403, NoHeader)} :
         lang_i' = lang_i + 1
    /\ UNCHANGED <<cache, token, pc, username, user_data, page, all_items, repos,
                   contribution, outcome, fresh, started_fresh, failure, returned_on_miss,
                   http_status, otherThanClient>>

\* the events are fetched while repositories are still waiting for their detail request
StartContribution_early ==
    /\ pc = "languages"
    /\ pc' = "events"
    /\ page' = 1
    /\ UNCHANGED <<cache, token, username, reqs, user_data, all_items, repos, lang_i,
                   contribution, outcome, fresh, started_fresh, failure, returned_on_miss,
                   http_status, otherThanClient>>

\* lines 205-214 and 221-230: _aggregate_languages returns, _get_contribution_data starts
StartContribution ==
    /\ pc = "languages"
    /\ ~(lang_i < Min(DetailLimit, repos))
    /\ pc' = "events"
    /\ page' = 1
    /\ UNCHANGED <<cache, token, username, reqs, user_data, all_items, repos, lang_i,
                   contribution, outcome, fresh, started_fresh, failure, returned_on_miss,
                   http_status, otherThanClient>>

\* What the loop over the fetched events (lines 232-263) leaves in the counters:
\* no event leaves zeros; otherwise the tally depends on the events' types and repos
EventTallies(n) ==
    IF n = 0
    THEN { [commits_last_year |-> 0, prs_last_year |-> 0, issues_last_year |-> 0,
            contributed_to |-> 0, contributed_to_bound |-> TRUE] }
    ELSE { [commits_last_year |-> 0, prs_last_year |-> 0, issues_last_year |-> 0,
            contributed_to |-> 0, contributed_to_bound |-> TRUE],
           [commits_last_year |-> 5, prs_last_year |-> 1, issues_last_year |-> 1,
            contributed_to |-> 1, contributed_to_bound |-> TRUE] }

\* lines 265-269: the except clause of _get_contribution_data overwrites the three
\* counters and assigns nothing else
events_fallback(locals, repo_count) ==
    [locals EXCEPT !.commits_last_year = repo_count * 10,
                   !.prs_last_year = repo_count * 2,
                   !.issues_last_year = repo_count * 1]

\* lines 229-269: one iteration of _get_all_pages for /users/{username}/events/public,
\* followed, after the last page, by the loop over the events
FetchEventsPage ==
    /\ pc = "events"
    /\ reqs' = Append(reqs, Request("events", page))
    /\ \E response \in Responses :
         IF response.kind = "ok"
         THEN \E n \in PageSizes(page) :
                IF more_pages(n)
                THEN /\ all_items' = all_items + n
                     /\ page' = page + 1
                     /\ UNCHANGED <<pc, contribution, failure>>
                ELSE /\ all_items' = 0
                     /\ page' = 0
                     /\ pc' = "assemble"
                     /\ UNCHANGED failure
                     /\ \E tally \in EventTallies(all_items + n) :
                          \/ contribution' = tally
                          \* an event the loop cannot process raises after the locals
                          \* of lines 232-235 were bound
                          \/ /\ all_items + n > 0
                             /\ contribution' = events_fallback(tally, repos)
         \* the request raises before lines 232-235 ran: contributed_to stays unbound
         ELSE /\ contribution' = events_fallback(NoContribution, repos)
              /\ failure' = Failed("events", response)
              /\ all_items' = 0
              /\ page' = 0
              /\ pc' = "assemble"
    /\ UNCHANGED <<cache, token, username, user_data, repos, lang_i, outcome, fresh,
                   started_fresh, returned_on_miss, http_status, otherThanClient>>

\* only the first field of the record is written
cache_set_first_field(c, key, stats) == [c EXCEPT ![key] = SubSeq(json_dumps(stats), 1, 1)]

\* lines 120-124: cache.set(cache_key, json.dumps(stats.__dict__), cache_timeout)
cache_set(c, key, stats) == [c EXCEPT ![key] = json_dumps(stats)]

\* lines 271-310, 91-124 and 161-162: the return statement of _get_contribution_data
\* reads contributed_to; then the record is assembled, cached and returned
Assemble ==
    /\ pc = "assemble"
    /\ pc' = "idle"
    /\ IF contribution.contributed_to_bound
       THEN LET stats == GitHubStats(username, user_data, contribution)
            IN  /\ cache' = cache_set(cache, username, stats)
                /\ outcome' = Returned(stats)
                /\ fresh' = fresh \cup {username}
                /\ returned_on_miss' = [returned_on_miss EXCEPT ![username] = stats]
       \* UnboundLocalError, caught by `except Exception`
       ELSE /\ outcome' = ValueError(OtherText, "", <<>>)
            /\ UNCHANGED <<cache, fresh, returned_on_miss>>
    /\ http_status' = stats_view(outcome', username)
    /\ UNCHANGED <<token, username, reqs, user_data, page, all_items, repos, lang_i,
                   contribution, started_fresh, failure, otherThanClient>>

\* the entry of user u reaches its timeout (GITHUB_CACHE_TIMEOUT, line 121)
Expire(u) ==
    /\ cache[u] # NoEntry
    /\ cache' = [cache EXCEPT ![u] = NoEntry]
    /\ fresh' = fresh \ {u}
    /\ returned_on_miss' = [returned_on_miss EXCEPT ![u] = NoRecord]
    /\ UNCHANGED <<token, pc, username, reqs, user_data, page, all_items, repos, lang_i,
                   contribution, outcome, started_fresh, failure, http_status,
                   otherThanClient>>

(***************************************************************************)
(* _calculate_streaks, lines 312-391.  A date is a day number: the          *)
(* '%Y-%m-%d' strings and the date objects correspond one to one, and the   *)
(* function only compares dates and steps by timedelta(days=1).             *)
(***************************************************************************)
Days   == 0..MaxDay
Counts == 0..MaxCount

None    == <<>>        \* an absent streak bound
Some(d) == <<d>>

NoStreaks == [current |-> 0, longest |-> 0, current_start |-> None, current_end |-> None,
              longest_start |-> None, longest_end |-> None]

\* sorted(...) of a set of dates
RECURSIVE sorted(_)
sorted(S) == IF S = {} THEN <<>>
             ELSE LET m == CHOOSE x \in S : \A y \in S : x <= y
                  IN  <<m>> \o sorted(S \ {m})

\* lines 325-328: the set of the dates with a count above zero
contribution_dates(series) ==
    {series[i].date : i \in {j \in 1..Len(series) : series[j].count > 0}}

\* lines 350-355: the walk back from check_date
RECURSIVE current_walk(_, _, _, _, _)
current_walk(dates, check_date, current_streak, current_start, current_end) ==
    IF check_date \in dates
    THEN current_walk(dates, check_date - 1, current_streak + 1,
                      IF current_start = None THEN Some(check_date) ELSE current_start,
                      Some(check_date))
    ELSE [current |-> current_streak, current_start |-> current_start,
          current_end |-> current_end]

\* the walk starts at yesterday when today has no contribution
current_from_yesterday(dates, t) ==
    current_walk(dates, IF t \in dates THEN t ELSE t - 1, 0, None, None)

\* lines 344-355: check_date = today
current_from_today(dates, t) == current_walk(dates, t, 0, None, None)

\* a gap of two days also extends the run
days_diff_at_most_two(previous, date) == date - previous <= 2

\* lines 367-368: days_diff == 1
extends_run(previous, date) == date - previous = 1

\* a run as long as the best one replaces it
close_run_on_tie(dates, k, streak_length, best) ==
    IF streak_length >= best.longest
    THEN [longest |-> streak_length,
          longest_start |-> Some(dates[k - streak_length]),
          longest_end |-> Some(dates[k - 1])]
    ELSE best

\* lines 371-374: a run of streak_length dates ended just before index k
close_run(dates, k, streak_length, best) ==
    IF streak_length > best.longest
    THEN [longest |-> streak_length,
          longest_start |-> Some(dates[k - streak_length]),
          longest_end |-> Some(dates[k - 1])]
    ELSE best

\* the run that ends at the last date is never compared
final_run_forgotten(dates, streak_length, best) == best

\* lines 378-382: the run that ends at the last date
final_run(dates, streak_length, best) ==
    IF streak_length > best.longest
    THEN [longest |-> streak_length,
          longest_start |-> Some(dates[Len(dates) - streak_length + 1]),
          longest_end |-> Some(dates[Len(dates)])]
    ELSE best

\* lines 366-382: the loop over sorted_dates[1:], k is the 1-based index of the date
RECURSIVE longest_scan(_, _, _, _)
longest_scan(dates, k, streak_length, best) ==
    IF k > Len(dates) THEN final_run(dates, streak_length, best)
    ELSE IF extends_run(dates[k - 1], dates[k])
         THEN longest_scan(dates, k + 1, streak_length + 1, best)
         ELSE longest_scan(dates, k + 1, 1, close_run(dates, k, streak_length, best))

\* lines 312-391
calculate_streaks(series, t) ==
    LET dates == contribution_dates(series) IN
    IF Len(series) = 0 \/ dates = {} THEN NoStreaks
    ELSE LET sorted_dates == sorted(dates)
             cur == current_from_today(dates, t)
             lng == longest_scan(sorted_dates, 2, 1,
                        [longest |-> 0, longest_start |-> None, longest_end |-> None])
         IN  [current |-> cur.current, longest |-> lng.longest,
              current_start |-> cur.current_start, current_end |-> cur.current_end,
              longest_start |-> lng.longest_start, longest_end |-> lng.longest_end]

\* A daily series: entries in date order, one per day of D, as lines 272-281 build it
SeriesOf(D, c) == [i \in 1..Cardinality(D) |-> [date |-> sorted(D)[i], count |-> c[sorted(D)[i]]]]

CalculateStreaks ==
    /\ spc = "start"
    /\ streaks' = calculate_streaks(daily, today)
    /\ spc' = "done"
    /\ UNCHANGED <<daily, today, clientVars, raceVars, langVars, pageVars, contribVars>>

StreaksIdle ==
    /\ daily = <<>>
    /\ today = 0
    /\ streaks = NoStreaks
    /\ spc = "idle"

(***************************************************************************)
(* _aggregate_languages, lines 183-214.  language_bytes is a dict: the      *)
(* sequence of its <<language, bytes>> items in insertion order.  A         *)
(* percentage is kept in tenths of a percent (44.0 is 440).                 *)
(***************************************************************************)
KB           == 1024
TopLanguages == 8

NoLanguage == NoneStr

\* 'language' and 'size' (in KB) of a repository of the list
Primaries == { [language |-> NoLanguage, size |-> 1],
               [language |-> "Python", size |-> 1],
               [language |-> "JavaScript", size |-> 4],
               [language |-> "Shell", size |-> 0] }

\* Answers to GET /repos/{owner}/{repo}/languages
DetailFailed == [ok |-> FALSE, items |-> <<>>]
DetailGo     == [ok |-> TRUE, items |-> << <<"Go", 4096>> >>]
DetailMany   == [ok |-> TRUE,
                 items |-> << <<"C", 512>>, <<"Rust", 512>>, <<"Ruby", 512>>,
                              <<"Java", 512>>, <<"Kotlin", 512>>, <<"Swift", 512>>,
                              <<"PHP", 512>>, <<"Shell", 512>>, <<"Lua", 512>> >>]
DetailResponses == {DetailFailed, DetailGo, DetailMany}

RepoKinds == {[language |-> p.language, size |-> p.size, detail |-> r] :
                 p \in Primaries, r \in DetailResponses}

\* language_bytes.get(lang, 0)
dict_get(d, lang) ==
    IF \E i \in 1..Len(d) : d[i][1] = lang
    THEN d[CHOOSE i \in 1..Len(d) : d[i][1] = lang][2]
    ELSE 0

\* language_bytes[lang] = n: the earlier value is overwritten
dict_set(d, lang, n) ==
    IF \E i \in 1..Len(d) : d[i][1] = lang
    THEN LET i == CHOOSE j \in 1..Len(d) : d[j][1] = lang
         IN  [d EXCEPT ![i] = <<lang, n>>]
    ELSE Append(d, <<lang, n>>)

\* language_bytes[lang] = language_bytes.get(lang, 0) + n
dict_add(d, lang, n) ==
    IF \E i \in 1..Len(d) : d[i][1] = lang
    THEN LET i == CHOOSE j \in 1..Len(d) : d[j][1] = lang
         IN  [d EXCEPT ![i] = <<lang, d[i][2] + n>>]
    ELSE Append(d, <<lang, n>>)

\* lines 187-192: the loop over all repositories, from index k on
RECURSIVE size_estimate(_, _, _)
size_estimate(list, k, d) ==
    IF k > Len(list) THEN d
    ELSE IF list[k].language # NoLanguage /\ list[k].language # ""
         THEN size_estimate(list, k + 1, dict_add(d, list[k].language, list[k].size * KB))
         ELSE size_estimate(list, k + 1, d)

\* lines 200-201: the loop over lang_data.items(), from index k on
RECURSIVE add_items(_, _, _)
add_items(items, k, d) ==
    IF k > Len(items) THEN d
    ELSE add_items(items, k + 1, dict_add(d, items[k][1], items[k][2]))

\* the loop is left at the first failed request
stop_after_failure(i, limit) == limit

\* lines 202-203: except: continue
continue_after_failure(i, limit) == i + 1

\* sum(language_bytes.values())
RECURSIVE sum_values(_)
sum_values(d) == IF Len(d) = 0 THEN 0 ELSE d[1][2] + sum_values(Tail(d))

\* whether the share bytes_count / total_bytes lies halfway between two tenths
is_tie(bytes_count, total_bytes) == 2 * ((1000 * bytes_count) % total_bytes) = total_bytes

\* every share is rounded up to the next tenth
round_up(bytes_count, total_bytes, tie_up) ==
    IF (1000 * bytes_count) % total_bytes = 0
    THEN (1000 * bytes_count) \div total_bytes
    ELSE (1000 * bytes_count) \div total_bytes + 1

\* line 210: round((bytes_count / total_bytes) * 100, 1), in tenths.  A share halfway
\* between two tenths goes the way the double nearest to it lies: tie_up says which
round(bytes_count, total_bytes, tie_up) ==
    LET q == (1000 * bytes_count) \div total_bytes
        r == (1000 * bytes_count) % total_bytes
    IN  IF 2 * r < total_bytes THEN q
        ELSE IF 2 * r > total_bytes THEN q + 1
        ELSE IF tie_up THEN q + 1 ELSE q

\* the items are sorted ascending and the result is reversed: equal weights come out
\* in the reverse of their insertion order
RECURSIVE sorted_then_reversed(_)
sorted_then_reversed(d) ==
    IF Len(d) = 0 THEN <<>>
    ELSE LET i == CHOOSE j \in 1..Len(d) :
                    /\ \A k \in 1..Len(d) : d[k][2] <= d[j][2]
                    /\ \A k \in (j + 1)..Len(d) : d[k][2] < d[j][2]
         IN  <<d[i]>> \o sorted_then_reversed(SubSeq(d, 1, i - 1) \o SubSeq(d, i + 1, Len(d)))

\* line 211: sorted(items, key=lambda x: x[1], reverse=True), a stable sort
RECURSIVE sorted_desc(_)
sorted_desc(d) ==
    IF Len(d) = 0 THEN <<>>
    ELSE LET i == CHOOSE j \in 1..Len(d) :
                    /\ \A k \in 1..Len(d) : d[k][2] <= d[j][2]
                    /\ \A k \in 1..(j - 1) : d[k][2] < d[j][2]
         IN  <<d[i]>> \o sorted_desc(SubSeq(d, 1, i - 1) \o SubSeq(d, i + 1, Len(d)))

\* lines 205-214
percentages(d, ties_up) ==
    LET total_bytes == sum_values(d) IN
    IF total_bytes = 0 THEN <<>>
    ELSE LET ordered == sorted_desc(d)
             all == [i \in 1..Len(ordered) |->
                        [name |-> ordered[i][1],
                         percentage |-> round(ordered[i][2], total_bytes,
                                              ordered[i][1] \in ties_up)]]
         IN  SubSeq(all, 1, Min(TopLanguages, Len(all)))

\* the languages of d whose share is halfway between two tenths
tied(d) == {d[i][1] : i \in {j \in 1..Len(d) : sum_values(d) > 0
                                               /\ is_tie(d[j][2], sum_values(d))}}

\* lines 185-192
SizeEstimate ==
    /\ lpc = "estimate"
    /\ language_bytes' = size_estimate(repo_list, 1, <<>>)
    /\ lpc' = "detail"
    /\ UNCHANGED <<repo_list, detail_i, attempted, languages, clientVars, raceVars, streakVars, pageVars, contribVars>>

\* lines 195-203: one iteration of the loop over repos[:10]
FetchDetail ==
    /\ lpc = "detail"
    /\ detail_i < Min(DetailLimit, Len(repo_list))
    /\ attempted' = attempted \cup {detail_i + 1}
    /\ LET response == repo_list[detail_i + 1].detail IN
       IF response.ok
       THEN /\ language_bytes' = add_items(response.items, 1, language_bytes)
            /\ detail_i' = detail_i + 1
       ELSE /\ detail_i' = continue_after_failure(detail_i, Min(DetailLimit, Len(repo_list)))
            /\ UNCHANGED language_bytes
    /\ UNCHANGED <<repo_list, lpc, languages, clientVars, raceVars, streakVars, pageVars, contribVars>>

\* lines 205-214
Percentages ==
    /\ lpc = "detail"
    /\ ~(detail_i < Min(DetailLimit, Len(repo_list)))
    /\ \E ties_up \in SUBSET tied(language_bytes) :
         languages' = percentages(language_bytes, ties_up)
    /\ lpc' = "done"
    /\ UNCHANGED <<repo_list, language_bytes, detail_i, attempted, clientVars, raceVars, streakVars, pageVars, contribVars>>

(***************************************************************************)
(* _get_all_pages, lines 164-181, reading a listing whose pages have the    *)
(* sizes upstream[1], upstream[2], ...; a page past the last one is empty.  *)
(* An item is <<page, position in the page>>.                               *)
(***************************************************************************)
NoParams == [page |-> 0, per_page |-> 0]

\* the body of the answer to the request for page p
page_data(listing, p) ==
    IF p <= Len(listing) THEN [k \in 1..listing[p] |-> <<p, k>>] ELSE <<>>

\* lines 166-171
StartPages ==
    /\ gpc = "start"
    /\ params' = [page |-> 1, per_page |-> PerPage]
    /\ fetched' = <<>>
    /\ gpc' = "loop"
    /\ UNCHANGED <<upstream, calls, clientVars, raceVars, streakVars, langVars, contribVars>>

\* lines 172-181: one iteration of the loop; _get may raise, which ends the function
GetPage ==
    /\ gpc = "loop"
    /\ calls' = Append(calls, params)
    /\ \/ LET data == page_data(upstream, params.page) IN
          /\ fetched' = fetched \o data
          /\ IF more_pages(Len(data))
             THEN /\ params' = [params EXCEPT !.page = params.page + 1]
                  /\ UNCHANGED gpc
             ELSE /\ gpc' = "returned"
                  /\ UNCHANGED params
       \/ /\ gpc' = "raised"
          /\ fetched' = <<>>
          /\ UNCHANGED params
    /\ UNCHANGED <<upstream, clientVars, raceVars, streakVars, langVars, contribVars>>

PagesIdle ==
    /\ upstream = <<>>
    /\ params = NoParams
    /\ calls = <<>>
    /\ fetched = <<>>
    /\ gpc = "idle"

(***************************************************************************)
(* Dates.  A datetime is a day (the proleptic Gregorian ordinal of its      *)
(* date, as date.toordinal()) and a time of day; a '%Y-%m-%d' string is     *)
(* <<year, month, day>> and a '%Y-%m' string is <<year, month>>.            *)
(***************************************************************************)
is_leap(y) == y % 4 = 0 /\ (y % 100 # 0 \/ y % 400 = 0)

DAYS_IN_MONTH == <<31, 28, 31, 30, 31, 30, 31, 31, 30, 31, 30, 31>>

DAYS_BEFORE_MONTH == <<0, 31, 59, 90, 120, 151, 181, 212, 243, 273, 304, 334>>

days_in_month(y, m) == IF m = 2 /\ is_leap(y) THEN 29 ELSE DAYS_IN_MONTH[m]

days_before_year(y) ==
    (y - 1) * 365 + (y - 1) \div 4 - (y - 1) \div 100 + (y - 1) \div 400

days_before_month(y, m) == DAYS_BEFORE_MONTH[m] + (IF m > 2 /\ is_leap(y) THEN 1 ELSE 0)

\* the ordinal of the date y-m-d
ymd2ord(y, m, d) == days_before_year(y) + days_before_month(y, m) + d

\* the date of the ordinal n, as <<year, month, day>>
ord2ymd(ordinal) ==
    LET n0   == ordinal - 1
        n400 == n0 \div 146097
        r400 == n0 % 146097
        n100 == r400 \div 36524
        r100 == r400 % 36524
        n4   == r100 \div 1461
        r4   == r100 % 1461
        n1   == r4 \div 365
        n    == r4 % 365
        year == n400 * 400 + 1 + n100 * 100 + n4 * 4 + n1
    IN  IF n1 = 4 \/ n100 = 4 THEN <<year - 1, 12, 31>>
        ELSE LET leapyear  == n1 = 3 /\ (n4 # 24 \/ n100 = 3)
                 month     == (n + 50) \div 32
                 preceding == DAYS_BEFORE_MONTH[month]
                                + (IF month > 2 /\ leapyear THEN 1 ELSE 0)
             IN  IF preceding > n
                 THEN <<year, month - 1,
                        n - (preceding - (DAYS_IN_MONTH[month - 1]
                                + (IF month - 1 = 2 /\ leapyear THEN 1 ELSE 0))) + 1>>
                 ELSE <<year, month, n - preceding + 1>>

\* datetime.strptime(s, '%Y-%m-%dT%H:%M:%SZ'), s = <<year, month, day, time>>
strptime(s) == [day |-> ymd2ord(s[1], s[2], s[3]), time |-> s[4]]

\* dt.strftime('%Y-%m-%d')
strftime_date(dt) == ord2ymd(dt.day)

\* dt.strftime('%Y-%m')
strftime_month(dt) == SubSeq(ord2ymd(dt.day), 1, 2)

\* date_str.startswith(month_str), month_str a '%Y-%m' string
startswith(date_str, month_str) ==
    date_str[1] = month_str[1] /\ date_str[2] = month_str[2]

\* dt + timedelta(days=k)
plus_days(dt, k) == [dt EXCEPT !.day = dt.day + k]

\* a < b and a <= b on datetimes
before(a, b) == a.day < b.day \/ (a.day = b.day /\ a.time < b.time)

\* the comparison looks at the dates only and is strict
ends_before(a, b) == a.day < b.day

not_after(a, b) == a.day < b.day \/ (a.day = b.day /\ a.time <= b.time)

\* dt.replace(day=1)
first_of_month(dt) ==
    LET s == ord2ymd(dt.day) IN [dt EXCEPT !.day = ymd2ord(s[1], s[2], 1)]

\* lines 293-296: the first of the month after current_month
next_month(current_month) ==
    LET s == ord2ymd(current_month.day)
    IN  IF s[2] = 12
        THEN [current_month EXCEPT !.day = ymd2ord(s[1] + 1, 1, s[3])]
        ELSE [current_month EXCEPT !.day = ymd2ord(s[1], s[2] + 1, s[3])]

\* the first n entries are kept
first_n(list, n) == SubSeq(list, 1, IF n < Len(list) THEN n ELSE Len(list))

\* list[-n:]
last_n(list, n) == SubSeq(list, IF Len(list) > n THEN Len(list) - n + 1 ELSE 1, Len(list))

(***************************************************************************)
(* _get_contribution_data, lines 216-310                                    *)
(***************************************************************************)
YearDays      == 365
WeekDays      == 7
DailyWindow   == 60
MonthlyWindow == 12

Queried == "octocat"       \* the username argument

\* the locals of lines 232-235 before they are bound
Unbound == [commits_last_year |-> 0, prs_last_year |-> 0, issues_last_year |-> 0,
            contributed_to |-> {}, contributed_to_bound |-> FALSE]

\* lines 232-235
Bound == [Unbound EXCEPT !.contributed_to_bound = TRUE]

\* a push event counts as one commit
classify_counting_pushes(locals, event) ==
    IF event.type = "PushEvent"
    THEN [locals EXCEPT !.commits_last_year = locals.commits_last_year + 1]
    ELSE IF event.type = "PullRequestEvent"
    THEN [locals EXCEPT !.prs_last_year = locals.prs_last_year + 1]
    ELSE IF event.type = "IssuesEvent"
    THEN [locals EXCEPT !.issues_last_year = locals.issues_last_year + 1]
    ELSE locals

\* lines 248-254
classify(locals, event) ==
    IF event.type = "PushEvent"
    THEN [locals EXCEPT !.commits_last_year = locals.commits_last_year + event.size]
    ELSE IF event.type = "PullRequestEvent"
    THEN [locals EXCEPT !.prs_last_year = locals.prs_last_year + 1]
    ELSE IF event.type = "IssuesEvent"
    THEN [locals EXCEPT !.issues_last_year = locals.issues_last_year + 1]
    ELSE locals

\* the owner is not compared with the username
track_every_owner(locals, repo, user) ==
    IF Len(repo) >= 2
    THEN [locals EXCEPT !.contributed_to = locals.contributed_to \cup {repo}]
    ELSE locals

\* lines 256-263: repo is the repository name split at '/', <<>> when there is none
track(locals, repo, user) ==
    IF Len(repo) >= 2 /\ repo[1] # user
    THEN [locals EXCEPT !.contributed_to = locals.contributed_to \cup {repo}]
    ELSE locals

\* lines 237-263: the loop over the events, from index k on.  An event without
\* 'created_at' raises KeyError, which leaves the loop
RECURSIVE events_loop(_, _, _, _)
events_loop(evs, k, one_year_ago, acc) ==
    IF k > Len(evs) THEN acc
    ELSE IF evs[k].created_at = <<>> THEN [acc EXCEPT !.raised = TRUE]
    ELSE LET event_date == strptime(evs[k].created_at) IN
         IF before(event_date, one_year_ago)
         THEN events_loop(evs, k + 1, one_year_ago, acc)
         ELSE events_loop(evs, k + 1, one_year_ago,
                [acc EXCEPT !.daily = dict_add(acc.daily, strftime_date(event_date), 1),
                            !.monthly = dict_add(acc.monthly, strftime_month(event_date), 1),
                            !.locals = track(classify(acc.locals, evs[k]),
                                             evs[k].repo, Queried)])

\* lines 274 and 281: how many times the loop that starts at current_date runs
iterations(current_date, end) ==
    Cardinality({k \in 0..(end.day - current_date.day + 1) :
                    not_after(plus_days(current_date, k), end)})

\* the week is counted from the length of the list after the append
daily_walk_one_based(current_date, end, buckets) ==
    [i \in 1..iterations(current_date, end) |->
        LET date_str == strftime_date(plus_days(current_date, i - 1))
            bucketed == dict_get(buckets, date_str)
            count    == IF bucketed = 0 /\ i % WeekDays = 0 THEN 1 ELSE bucketed
        IN  [date |-> date_str, count |-> count]]

\* lines 272-281: the loop over the days from current_date to end; the entry of
\* index i is appended when len(daily_list) is i - 1
daily_walk(current_date, end, buckets) ==
    [i \in 1..iterations(current_date, end) |->
        LET date_str == strftime_date(plus_days(current_date, i - 1))
            bucketed == dict_get(buckets, date_str)
            count    == IF bucketed = 0 /\ (i - 1) % WeekDays = 0 THEN 1 ELSE bucketed
        IN  [date |-> date_str, count |-> count]]

\* line 290: len([d for d in daily_list if d['date'].startswith(month_str)])
recount(list, month_str) ==
    Len(SelectSeq(list, LAMBDA d : startswith(d.date, month_str)))

\* lines 284-296: the loop over the months from current_month to end
RECURSIVE monthly_walk(_, _, _, _, _)
monthly_walk(current_month, end, buckets, days, list) ==
    IF not_after(current_month, end)
    THEN LET month_str == strftime_month(current_month)
             bucketed  == dict_get(buckets, month_str)
             count     == IF bucketed = 0 THEN recount(days, month_str) ELSE bucketed
         IN  monthly_walk(next_month(current_month), end, buckets, days,
                          Append(list, [month |-> month_str, count |-> count]))
    ELSE list

\* sum(d['count'] for d in list[lo..hi])
RECURSIVE sum_range(_, _, _)
sum_range(list, lo, hi) ==
    IF lo > hi THEN 0
    ELSE IF lo = hi THEN list[lo].count
    ELSE sum_range(list, lo, (lo + hi) \div 2) + sum_range(list, (lo + hi) \div 2 + 1, hi)

\* sum(d['count'] for d in list)
sum_counts(list) == sum_range(list, 1, Len(list))

\* the buckets are ignored
total_from_list(buckets, list) == sum_counts(list)

\* line 298: sum(daily_contributions.values()) or sum(d['count'] for d in daily_list)
total_contributions(buckets, list) ==
    IF sum_values(buckets) # 0 THEN sum_values(buckets) ELSE sum_counts(list)

\* the sum is taken over the entries that are returned
contributions_last_window(list) == sum_counts(last_n(list, DailyWindow))

\* line 299
contributions_last_year(list) == sum_counts(list)

NoResult == [kind |-> "none"]

RepoCounts == {0, 3}       \* len(repos)

\* lines 216-310.  The events are fetched and tallied; when the fetch or the loop
\* raises, the except clause overwrites the three counters (lines 265-269).  Then
\* the daily and the monthly list are built and the sums are taken; the return
\* statement reads contributed_to, which is unbound when the fetch raised.
GetContributionData(listing) ==
    /\ cpc = "start"
    /\ \/ LET acc == events_loop(listing, 1, plus_days(now, 0 - YearDays),
                                 [daily |-> <<>>, monthly |-> <<>>, locals |-> Bound,
                                  raised |-> FALSE])
          IN  /\ events' = listing
              /\ daily_contributions' = acc.daily
              /\ monthly_contributions' = acc.monthly
              /\ IF acc.raised
                 THEN \E n \in RepoCounts : counted' = events_fallback(acc.locals, n)
                 ELSE counted' = acc.locals
       \/ /\ listing = <<>>
          /\ events' = <<>>
          /\ daily_contributions' = <<>>
          /\ monthly_contributions' = <<>>
          /\ \E n \in RepoCounts : counted' = events_fallback(Unbound, n)
    /\ daily_list' = daily_walk(plus_days(now, 0 - YearDays), now, daily_contributions')
    /\ monthly_list' = monthly_walk(first_of_month(plus_days(now, 0 - YearDays)), now,
                                    monthly_contributions', daily_list', <<>>)
    /\ IF counted'.contributed_to_bound
       THEN contribution_data' =
              [kind |-> "ok",
               total |-> total_contributions(daily_contributions', daily_list'),
               contributions_last_year |-> contributions_last_year(daily_list'),
               commits_last_year |-> counted'.commits_last_year,
               prs_last_year |-> counted'.prs_last_year,
               issues_last_year |-> counted'.issues_last_year,
               contributed_to |-> Cardinality(counted'.contributed_to),
               daily |-> last_n(daily_list', DailyWindow),
               monthly |-> last_n(monthly_list', MonthlyWindow)]
       \* UnboundLocalError
       ELSE contribution_data' = [kind |-> "raised"]
    /\ cpc' = "done"
    /\ UNCHANGED <<now, clientVars, raceVars, streakVars, langVars, pageVars>>

ContribIdle ==
    /\ now = [day |-> 0, time |-> 0]
    /\ events = <<>>
    /\ daily_contributions = <<>>
    /\ monthly_contributions = <<>>
    /\ counted = Unbound
    /\ daily_list = <<>>
    /\ monthly_list = <<>>
    /\ contribution_data = NoResult
    /\ cpc = "idle"

LangIdle ==
    /\ repo_list = <<>>
    /\ lpc = "idle"
    /\ language_bytes = <<>>
    /\ detail_i = 0
    /\ attempted = {}
    /\ languages = <<>>

\* no concurrent call is under way
NoReading == [day |-> 0, time |-> 0]

RaceCalls == {1, 2}

RaceIdle ==
    /\ clock = NoReading
    /\ rpc = [c \in RaceCalls |-> "idle"]
    /\ rdata = [c \in RaceCalls |-> NoData]
    /\ rnow = [c \in RaceCalls |-> NoReading]
    /\ rlist = [c \in RaceCalls |-> <<>>]
    /\ rout = [c \in RaceCalls |-> NoOutcome]

ClientIdle ==
    /\ cache = [u \in Users |-> NoEntry]
    /\ token = FALSE
    /\ pc = "idle"
    /\ username = NoneStr
    /\ reqs = <<>>
    /\ user_data = NoData
    /\ page = 0
    /\ all_items = 0
    /\ repos = 0
    /\ lang_i = 0
    /\ contribution = NoContribution
    /\ outcome = NoOutcome
    /\ fresh = {}
    /\ started_fresh = FALSE
    /\ failure = NoFailure
    /\ returned_on_miss = [u \in Users |-> NoRecord]
    /\ http_status = NoResponse

\* lines 47-53: the client is built with or without a token; the cache starts empty
Init ==
    /\ cache = [u \in Users |-> NoEntry]
    /\ token \in BOOLEAN
    /\ pc = "idle"
    /\ username = NoneStr
    /\ reqs = <<>>
    /\ user_data = NoData
    /\ page = 0
    /\ all_items = 0
    /\ repos = 0
    /\ lang_i = 0
    /\ contribution = NoContribution
    /\ outcome = NoOutcome
    /\ fresh = {}
    /\ started_fresh = FALSE
    /\ failure = NoFailure
    /\ returned_on_miss = [u \in Users |-> NoRecord]
    /\ http_status = NoResponse
    /\ StreaksIdle
    /\ LangIdle
    /\ PagesIdle
    /\ ContribIdle
    /\ RaceIdle

Next ==
    \/ \E u \in Users : Call(u)
    \/ FetchProfile
    \/ FetchReposPage
    \/ FetchLanguages
    \/ StartContribution
    \/ FetchEventsPage
    \/ Assemble
    \/ \E u \in Users : Expire(u)

Spec == Init /\ [][Next]_vars

(***************************************************************************)
(* Properties of get_user_stats                                            *)
(***************************************************************************)
Ended == pc = "idle" /\ outcome.kind # "none"

\* C1. Cache short-circuit: a call for a user for whom an earlier call returned
\* successfully, and whose cache entry has not expired since, issues no upstream
\* request at all and returns a record.
CacheShortCircuit ==
    started_fresh => (reqs = <<>> /\ pc = "idle" /\ outcome.kind = "ok")

CacheShortCircuitWitness ==
    started_fresh /\ Ended /\ outcome.kind = "ok" /\ reqs = <<>>

\* C2. No cache write on failure: the cache changes only when an entry expires or
\* in the step that ends a call by returning a complete GitHubStats record, which
\* is then the entry written; a call that ends by raising wrote nothing.
IsExpiry ==
    /\ \E u \in Users : cache[u] # NoEntry /\ cache' = [cache EXCEPT ![u] = NoEntry]
    /\ UNCHANGED <<pc, outcome, reqs>>

IsWriteOfReturnedRecord ==
    /\ pc = "assemble" /\ pc' = "idle"
    /\ outcome'.kind = "ok"
    /\ DOMAIN outcome'.stats = {StatsFields[i] : i \in 1..Len(StatsFields)}
    /\ cache' = [cache EXCEPT ![username] = json_dumps(outcome'.stats)]

NoCacheWriteOnFailure ==
    [][ /\ cache' # cache => (IsExpiry \/ IsWriteOfReturnedRecord)
        /\ (pc # "idle" /\ pc' = "idle" /\ outcome'.kind = "error") => cache' = cache ]_vars

NoCacheWriteOnFailureWitness ==
    Ended /\ outcome.kind = "error" /\ \E u \in Users : cache[u] # NoEntry

\* C3. Events-API fallback: when the profile and the repositories were fetched and
\* the fetch of the event stream failed, the call returns a record with
\* commits_last_year = 10 x repo_count, pull_requests_last_year = 2 x repo_count
\* and issues_last_year = 1 x repo_count.
EventsFallbackReturned ==
    (Ended /\ failure.endpoint = "events") =>
        /\ outcome.kind = "ok"
        /\ outcome.stats.commits_last_year = 10 * repos
        /\ outcome.stats.pull_requests_last_year = 2 * repos
        /\ outcome.stats.issues_last_year = 1 * repos

\* C4. 404 classification: a profile request that fails with HTTP 404 makes the
\* call raise the user-not-found ValueError, neither the rate-limit error nor
\* the generic API error.
NotFoundClassification ==
    (Ended /\ failure.endpoint = "profile" /\ failure.status = 404) =>
        /\ outcome.kind = "error" /\ outcome.exc = "ValueError"
        /\ outcome.text = NotFoundText
        /\ outcome.flag = ""

NotFoundClassificationWitness ==
    Ended /\ failure.endpoint = "profile" /\ failure.status = 404
          /\ outcome.kind = "error"

\* C5. Rate-limit classification: a profile or repository request that fails with
\* HTTP 403 makes the call raise the rate-limit error, with the no-token flag
\* when the client has no token and the with-token flag when it has one, and
\* with the reset time whenever the response has an X-RateLimit-Reset header
\* (one that has a value).
RateLimitClassification ==
    (Ended /\ failure.endpoint \in {"profile", "repos"} /\ failure.status = 403) =>
        /\ outcome.kind = "error"
        /\ outcome.text = RateLimitText
        /\ outcome.flag = IF token THEN WithTokenFlag ELSE NoTokenFlag
        /\ (failure.reset # NoHeader /\ Len(failure.reset) > 0) => outcome.reset # <<>>

\* A call that ended on a cache hit: it returned without any upstream request
Hit == Ended /\ reqs = <<>> /\ outcome.kind = "ok"

\* The step of a call that is a cache hit: the call starts and returns at once
HitStep == pc = "idle" /\ pc' = "idle" /\ cache' = cache /\ outcome'.kind = "ok"

HappyPath ==
    /\ Ended
    /\ failure = NoFailure
    /\ repos < PerPage
    /\ reqs = <<Request("profile", 0), Request("repos", 1)>>
              \o [i \in 1..Min(DetailLimit, repos) |-> Request("languages", i)]
              \o <<Request("events", 1)>>
    /\ contribution \in EventTallies(0)

\* C16. On a cache miss where the profile, the repository list (one short page) and
\* an empty event stream are served successfully, the call returns a record whose
\* username is the requested username, whose name is the profile's name, or the
\* username when the profile's name is missing or empty, and whose public_repos is
\* the profile's value.
HappyPathRecord ==
    HappyPath =>
        /\ outcome.kind = "ok"
        /\ outcome.stats.username = username
        /\ outcome.stats.name = (IF user_data.name \in {NoneStr, ""}
                                 THEN username ELSE user_data.name)
        /\ outcome.stats.public_repos = user_data.public_repos

HappyPathRecordWitness ==
    /\ HappyPath
    /\ repos = ShortPage
    /\ user_data.name = ""
    /\ outcome.kind = "ok"
    /\ outcome.stats.name = username
    /\ outcome.stats.public_repos = 2

\* C17. stats_view answers 200 when the call returned a record, 429 when the
\* ValueError raised is the rate-limit error, 404 for every other ValueError, the
\* user-not-found error among them, and 500 for any other exception.
StatusMapping ==
    Ended => http_status =
        (IF outcome.kind = "ok" THEN 200
         ELSE IF outcome.exc = "ValueError"
              THEN IF outcome.text = RateLimitText THEN 429 ELSE 404
              ELSE 500)

\* the stages of a call in the order of lines 74, 77, 83 and 88
Stage(ep) == CASE ep = "profile" -> 1 [] ep = "repos" -> 2
               [] ep = "languages" -> 3 [] ep = "events" -> 4

\* the positions of the log r that hold a request to ep
Of(r, ep) == {i \in 1..Len(r) : r[i].endpoint = ep}

\* the log r has the profile request first, then the repository pages 1, 2, ...,
\* then the detail requests 1, 2, ..., then the event pages 1, 2, ...
InStageOrder(r) ==
    /\ \A i \in 1..(Len(r) - 1) : Stage(r[i].endpoint) <= Stage(r[i + 1].endpoint)
    /\ Len(r) > 0 => r[1] = Request("profile", 0)
    /\ Cardinality(Of(r, "profile")) <= 1
    /\ \A ep \in {"repos", "languages", "events"} :
          LET at == Of(r, ep)
          IN  \A i \in at : r[i].page = Cardinality({j \in at : j <= i})

\* C25. Order of upstream requests on a cache miss: the profile request comes
\* first, then the repository pages in increasing page order, then the
\* language-detail requests, then the event-stream pages; no request of a later
\* stage is issued before the previous stage has finished, and the cache write
\* happens after the last upstream request.
RequestOrder ==
    [][ /\ InStageOrder(reqs')
        \* a request is issued by a running call only
        /\ reqs' # reqs /\ reqs' # <<>> => pc # "idle"
        \* the repository stage has finished: the page that is not full was fetched
        /\ Of(reqs', "languages") \cup Of(reqs', "events") # {} =>
              Cardinality(Of(reqs', "repos")) = (repos' \div 100) + 1
        \* the detail stage has finished: the first 10 repositories were visited
        /\ Of(reqs', "events") # {} =>
              Cardinality(Of(reqs', "languages")) = Min(10, repos')
        \* the write is the last thing the call does
        /\ (cache' # cache /\ ~IsExpiry) =>
              /\ reqs' = reqs
              /\ Of(reqs, "events") # {}
              /\ pc' = "idle" ]_vars

\* two repository pages, ten detail requests and two event pages before the write
RequestOrderWitness ==
    /\ Ended
    /\ outcome.kind = "ok"
    /\ cache[username] # NoEntry
    /\ Cardinality(Of(reqs, "repos")) = 2
    /\ Cardinality(Of(reqs, "languages")) = 10
    /\ Cardinality(Of(reqs, "events")) = 2
    /\ Len(reqs) = 15

\* C26. Fail-fast without retry: within one call no upstream request (same
\* endpoint and page) is issued twice, and once the profile request or a
\* repository-page request has failed, no further request is issued in that call
\* and the items of the pages already fetched are discarded: the call ends with an
\* error.
FailFast ==
    /\ \A i \in 1..Len(reqs) : \A j \in 1..Len(reqs) : reqs[i] = reqs[j] => i = j
    /\ failure.endpoint \in {"profile", "repos"} =>
          /\ pc = "idle"
          /\ outcome.kind = "error"
          /\ reqs[Len(reqs)].endpoint = failure.endpoint
          /\ Of(reqs, "languages") \cup Of(reqs, "events") = {}
          /\ repos = 0
          /\ cache[username] = NoEntry

\* the second repository page fails after a full first page
FailFastWitness ==
    /\ Ended
    /\ failure.endpoint = "repos"
    /\ reqs = <<Request("profile", 0), Request("repos", 1), Request("repos", 2)>>
    /\ all_items = 100
    /\ repos = 0
    /\ outcome.kind = "error"

(***************************************************************************)
(* _calculate_streaks on every daily series over Days, for every today      *)
(***************************************************************************)
InitStreaks ==
    /\ \E D \in SUBSET Days : \E c \in [D -> Counts] : daily = SeriesOf(D, c)
    /\ today \in Days
    /\ streaks = NoStreaks
    /\ spc = "start"
    /\ ClientIdle
    /\ RaceIdle
    /\ LangIdle
    /\ PagesIdle
    /\ ContribIdle

NextStreaks == CalculateStreaks

SpecStreaks == InitStreaks /\ [][NextStreaks]_vars

\* the days of the series with a count above zero
Active(d) == \E i \in 1..Len(daily) : daily[i].date = d /\ daily[i].count > 0

\* the lengths of the runs of consecutive active days
RunLengths == {b - a + 1 : <<a, b>> \in {r \in Days \X Days :
                                r[1] <= r[2] /\ \A d \in r[1]..r[2] : Active(d)}}

LongestRun == IF RunLengths = {} THEN 0
              ELSE CHOOSE n \in RunLengths : \A m \in RunLengths : m <= n

\* C7. Streak invariant: for every daily series the result of _calculate_streaks
\* has longest >= current >= 0.
StreakInvariant ==
    spc = "done" => (streaks.longest >= streaks.current /\ streaks.current >= 0)

StreakInvariantWitness ==
    spc = "done" /\ streaks.current >= 2 /\ streaks.longest = streaks.current

\* C8. Must-include-today: current is 0 exactly when the series has no entry for
\* today with a count above zero, also when yesterday and earlier days are active.
MustIncludeToday ==
    spc = "done" => (streaks.current = 0 <=> ~Active(today))

MustIncludeTodayWitness ==
    /\ spc = "done" /\ today >= 2
    /\ \E i \in 1..Len(daily) : daily[i].date = today /\ daily[i].count = 0
    /\ Active(today - 1) /\ Active(today - 2)
    /\ streaks.current = 0

\* C9. Longest-streak correctness: longest is the length of the longest run of
\* consecutive calendar days with a count above zero, the run that ends at the
\* last active date included.
LongestStreakCorrect ==
    spc = "done" => streaks.longest = LongestRun

\* five consecutive days, all active but the third: longest = 2
LongestStreakCorrectWitness ==
    /\ spc = "done"
    /\ \E a \in Days :
         /\ a + 4 \in Days
         /\ \A d \in Days : Active(d) <=> d \in {a, a + 1, a + 3, a + 4}
    /\ streaks.longest = 2

\* C28. Current-streak bounds: whenever current > 0, current_start is the earliest
\* day of the run and current_end is today, so start <= end and the number of days
\* from start to end inclusive is current; both bounds are None exactly when
\* current = 0.
CurrentStreakBounds ==
    spc = "done" =>
        /\ streaks.current > 0 =>
              /\ streaks.current_start = Some(today - streaks.current + 1)
              /\ streaks.current_end = Some(today)
        /\ streaks.current = 0 <=> streaks.current_start = None
        /\ streaks.current = 0 <=> streaks.current_end = None

\* C29. Longest-streak bounds: whenever longest > 0, every day from longest_start
\* to longest_end inclusive is active, the number of those days is longest, the
\* days right before longest_start and right after longest_end are not active,
\* and of several maximal runs of that length the bounds are those of the
\* earliest.
LongestStreakBounds ==
    (spc = "done" /\ streaks.longest > 0) =>
        /\ streaks.longest_start # None
        /\ streaks.longest_end # None
        /\ LET first == streaks.longest_start[1]
               last  == streaks.longest_end[1]
           IN  /\ \A d \in first..last : Active(d)
               /\ last - first + 1 = streaks.longest
               /\ ~Active(first - 1)
               /\ ~Active(last + 1)
               /\ \A a \in Days :
                     (\A d \in a..(a + streaks.longest - 1) : Active(d)) => first <= a

\* two runs of two days: the bounds are those of the first
LongestStreakBoundsWitness ==
    /\ spc = "done"
    /\ \A d \in Days : Active(d) <=> d \in {1, 2, 4, 5}
    /\ streaks.longest = 2
    /\ streaks.longest_start = Some(1)
    /\ streaks.longest_end = Some(2)

(***************************************************************************)
(* _aggregate_languages on repository lists of up to MaxRepos repositories  *)
(***************************************************************************)
\* the list of n repositories that repeats the pattern base
Repeat(base, n) == [k \in 1..n |-> base[((k - 1) % Len(base)) + 1]]

Bases == UNION {[1..m -> RepoKinds] : m \in 1..MaxBase}

InitLang ==
    /\ \E base \in Bases : \E n \in 0..MaxRepos : repo_list = Repeat(base, n)
    /\ lpc = "estimate"
    /\ language_bytes = <<>>
    /\ detail_i = 0
    /\ attempted = {}
    /\ languages = <<>>
    /\ ClientIdle
    /\ RaceIdle
    /\ StreaksIdle
    /\ PagesIdle
    /\ ContribIdle

NextLang ==
    \/ SizeEstimate
    \/ FetchDetail
    \/ Percentages

SpecLang == InitLang /\ [][NextLang]_vars

\* the repositories whose language detail is requested
DetailScope == 1..Min(DetailLimit, Len(repo_list))

\* bytes of lang over the first k repositories: the size estimate of every repository
\* whose primary language is lang, and the detail answer of every repository among
\* the first i whose request succeeded
RECURSIVE expected_bytes(_, _, _)
expected_bytes(k, i, lang) ==
    IF k = 0 THEN 0
    ELSE (IF repo_list[k].language = lang THEN repo_list[k].size * KB ELSE 0)
         + (IF k <= i /\ repo_list[k].detail.ok
            THEN dict_get(repo_list[k].detail.items, lang) ELSE 0)
         + expected_bytes(k - 1, i, lang)

AllLanguages == ({p.language : p \in Primaries} \ {NoLanguage})
                          \cup {DetailGo.items[i][1] : i \in 1..Len(DetailGo.items)}
                          \cup {DetailMany.items[i][1] : i \in 1..Len(DetailMany.items)}

\* C6. Language-detail failures are non-fatal: _aggregate_languages never ends in
\* an error, a repository whose request fails adds nothing to language_bytes,
\* and every repository among the first 10 has its detail requested, also after
\* an earlier failure.
DetailFailuresNonFatal ==
    /\ lpc \in {"estimate", "detail", "done"}
    /\ attempted = 1..detail_i
    /\ lpc = "done" => attempted = DetailScope
    /\ lpc \in {"detail", "done"} =>
         \A lang \in AllLanguages :
            dict_get(language_bytes, lang) = expected_bytes(Len(repo_list), detail_i, lang)

DetailFailuresNonFatalWitness ==
    /\ lpc = "done"
    /\ Len(repo_list) > DetailLimit
    /\ \E j, k \in DetailScope :
         /\ j < k
         /\ ~repo_list[j].detail.ok
         /\ repo_list[k].detail.ok
         /\ k \in attempted
    /\ Len(languages) > 0

RECURSIVE sum_percentages(_)
sum_percentages(l) == IF Len(l) = 0 THEN 0 ELSE l[1].percentage + sum_percentages(Tail(l))

\* C10 as stated. The percentages of the returned list sum to at most 100.
PercentagesAtMost100 ==
    lpc = "done" => sum_percentages(languages) <= 1000

\* C10, amended. Each percentage is the share rounded to the nearest tenth, so the
\* percentages of the returned list sum to at most 100 + 0.05 x (number of entries),
\* which is at most 100.4.
PercentagesWithinRounding ==
    lpc = "done" => /\ 2 * sum_percentages(languages) <= 2000 + Len(languages)
                    /\ sum_percentages(languages) <= 1004

PercentagesWithinRoundingWitness ==
    lpc = "done" /\ sum_percentages(languages) > 1000

\* the position of lang in language_bytes: the order in which the languages were
\* first seen during the aggregation
first_seen(lang) == CHOOSE i \in 1..Len(language_bytes) : language_bytes[i][1] = lang

Aggregated == {language_bytes[i][1] : i \in 1..Len(language_bytes)}

Listed == {languages[i].name : i \in 1..Len(languages)}

\* a comes before b: a larger weight, or the same weight and seen first
Precedes(a, b) ==
    \/ dict_get(language_bytes, a) > dict_get(language_bytes, b)
    \/ /\ dict_get(language_bytes, a) = dict_get(language_bytes, b)
       /\ first_seen(a) < first_seen(b)

TopOrdered ==
    /\ Len(languages) <= TopLanguages
    /\ Listed \subseteq Aggregated
    /\ \A i, j \in 1..Len(languages) : i < j => Precedes(languages[i].name, languages[j].name)
    /\ \A lang \in Aggregated \ Listed :
          /\ Len(languages) = TopLanguages
          /\ \A i \in 1..Len(languages) : Precedes(languages[i].name, lang)

\* C11 as stated. The returned list has at most 8 entries, holds the languages with
\* the largest aggregated byte weights and is ordered by non-increasing weight,
\* languages of equal weight in the order in which they were first seen.
TopLanguagesOrdered ==
    lpc = "done" => TopOrdered

\* C11, amended. When the aggregated weights sum to zero the returned list is
\* empty, whatever languages were seen; otherwise it is as stated.
TopLanguagesOrderedUnlessZero ==
    lpc = "done" => IF sum_values(language_bytes) = 0 THEN languages = <<>>
                    ELSE TopOrdered

\* more than 8 languages, the ninth left out, and a tie among the 8 returned
TopLanguagesOrderedUnlessZeroWitness ==
    /\ lpc = "done"
    /\ Len(language_bytes) > TopLanguages
    /\ Len(languages) = TopLanguages
    /\ \E i, j \in 1..Len(languages) :
          /\ i < j
          /\ dict_get(language_bytes, languages[i].name)
                = dict_get(language_bytes, languages[j].name)
    /\ \E i \in 2..Len(languages) :
          dict_get(language_bytes, languages[i - 1].name)
            > dict_get(language_bytes, languages[i].name)

\* the sum of f[x] over the x of S
RECURSIVE sum_over(_, _)
sum_over(S, f) ==
    IF S = {} THEN 0
    ELSE LET x == CHOOSE y \in S : TRUE IN f[x] + sum_over(S \ {x}, f)

\* size x 1024 summed over the repositories whose primary language is lang
EstimateOf(lang) ==
    sum_over({k \in 1..Len(repo_list) : repo_list[k].language = lang},
             [k \in 1..Len(repo_list) |-> repo_list[k].size * KB])

\* the byte counts of lang in the successful detail responses of the first 10
DetailOf(lang) ==
    sum_over({k \in 1..Len(repo_list) : k <= 10 /\ repo_list[k].detail.ok},
             [k \in 1..Len(repo_list) |-> dict_get(repo_list[k].detail.items, lang)])

\* C24. Language byte weight: the aggregated weight of a language is the sum of
\* size x 1024 over the repositories whose primary language it is plus the sum of
\* its byte counts over the successful detail responses of the first 10
\* repositories; at most 10 detail requests are issued, and a repository after the
\* tenth contributes its size estimate only.
LanguageByteWeight ==
    /\ Cardinality(attempted) <= 10
    /\ \A k \in attempted : k <= 10
    /\ lpc = "done" =>
          /\ \A lang \in AllLanguages :
                dict_get(language_bytes, lang) = EstimateOf(lang) + DetailOf(lang)
          /\ \A i \in 1..Len(language_bytes) : language_bytes[i][1] \in AllLanguages

\* eleven repositories of one language, each with a detail response: the eleventh
\* adds its size estimate and no detail
LanguageByteWeightWitness ==
    /\ lpc = "done"
    /\ Len(repo_list) = 11
    /\ repo_list[11].language = "JavaScript"
    /\ repo_list[11].detail.ok
    /\ attempted = 1..10
    /\ dict_get(language_bytes, "JavaScript") = 11 * 4 * KB
    /\ dict_get(language_bytes, "Go") = 10 * 4096

(***************************************************************************)
(* _get_all_pages on listings of up to MaxFeed pages                        *)
(***************************************************************************)
FeedSizes == {0, 1, ShortPage, PerPage - 1, PerPage}

InitPages ==
    /\ upstream \in UNION {[1..m -> FeedSizes] : m \in 0..MaxFeed}
    /\ params = NoParams
    /\ calls = <<>>
    /\ fetched = <<>>
    /\ gpc = "start"
    /\ ClientIdle
    /\ RaceIdle
    /\ StreaksIdle
    /\ LangIdle
    /\ ContribIdle

NextPages ==
    \/ StartPages
    \/ GetPage

SpecPages == InitPages /\ [][NextPages]_vars

page_size(p) == IF p <= Len(upstream) THEN upstream[p] ELSE 0

\* the first page that is not full
FirstShort == CHOOSE p \in 1..(Len(upstream) + 1) :
                 /\ page_size(p) < 100
                 /\ \A q \in 1..(p - 1) : page_size(q) = 100

\* the pages 1..FirstShort one after the other
Concatenated ==
    [i \in 1..(100 * (FirstShort - 1) + page_size(FirstShort)) |->
        <<((i - 1) \div 100) + 1, ((i - 1) % 100) + 1>>]

\* C12. Pagination termination: _get_all_pages requests the pages 1, 2, 3, ... in
\* order with per_page = 100, stops after the first page with fewer than 100
\* items (an empty one included) and returns the received pages concatenated in
\* order: pages of 100, 100, 37 items make 3 requests and 237 items, a first page
\* of 0 items makes 1 request and an empty list.
PaginationTermination ==
    /\ \A i \in 1..Len(calls) : calls[i] = [page |-> i, per_page |-> 100]
    /\ Len(calls) <= FirstShort
    /\ gpc = "returned" =>
          /\ Len(calls) = FirstShort
          /\ fetched = Concatenated
          /\ upstream = <<100, 100, 37>> => (Len(calls) = 3 /\ Len(fetched) = 237)
          /\ (Len(upstream) > 0 /\ upstream[1] = 0) => (Len(calls) = 1 /\ fetched = <<>>)

PaginationTerminationWitness ==
    /\ gpc = "returned"
    /\ upstream = <<100, 100, 37>>
    /\ Len(calls) = 3
    /\ Len(fetched) = 237

(***************************************************************************)
(* _get_contribution_data for every now among the first and the last day   *)
(* of every month of MaxYears years, on event listings of up to            *)
(* MaxEvents events                                                         *)
(***************************************************************************)
FirstYear == 2024

Years == FirstYear..(FirstYear + MaxYears - 1)

NowDays(y, m) == {1, days_in_month(y, m)}

Nows == UNION {{[day |-> ymd2ord(ym[1], ym[2], d), time |-> 1] : d \in NowDays(ym[1], ym[2])} :
                  ym \in Years \X (1..12)}

\* Events by the day and the time of 'created_at' relative to now, newest first.
\* One of them has no 'created_at'
EventTemplates ==
    << [offset |-> 1, time |-> 1, type |-> "IssuesEvent", size |-> 0,
        repo |-> <<"torvalds", "linux">>, dated |-> TRUE],
       [offset |-> 0, time |-> 0, type |-> "PushEvent", size |-> 3,
        repo |-> <<"octocat", "hello">>, dated |-> TRUE],
       [offset |-> 0 - 28, time |-> 0, type |-> "WatchEvent", size |-> 4,
        repo |-> <<"torvalds", "linux">>, dated |-> TRUE],
       [offset |-> 0 - 50, time |-> 1, type |-> "PushEvent", size |-> 0,
        repo |-> <<>>, dated |-> FALSE],
       [offset |-> 0 - 365, time |-> 2, type |-> "PullRequestEvent", size |-> 0,
        repo |-> <<"noslash">>, dated |-> TRUE],
       [offset |-> 0 - 365, time |-> 0, type |-> "IssuesEvent", size |-> 0,
        repo |-> <<"rails", "rails">>, dated |-> TRUE] >>

\* the event of template t when the call happens at n
event_at(t, n) ==
    [created_at |-> IF t.dated THEN ord2ymd(n.day + t.offset) \o <<t.time>> ELSE <<>>,
     type |-> t.type, size |-> t.size, repo |-> t.repo]

\* the listings: up to MaxEvents events, newest first
EventLists ==
    {q \in UNION {[1..m -> 1..Len(EventTemplates)] : m \in 0..MaxEvents} :
        \A i \in 1..(Len(q) - 1) : q[i] <= q[i + 1]}

InitContrib ==
    /\ now \in Nows
    /\ events = <<>>
    /\ daily_contributions = <<>>
    /\ monthly_contributions = <<>>
    /\ counted = Unbound
    /\ daily_list = <<>>
    /\ monthly_list = <<>>
    /\ contribution_data = NoResult
    /\ cpc = "start"
    /\ ClientIdle
    /\ RaceIdle
    /\ StreaksIdle
    /\ LangIdle
    /\ PagesIdle

NextContrib ==
    \E q \in EventLists :
        GetContributionData([i \in 1..Len(q) |-> event_at(EventTemplates[q[i]], now)])

SpecContrib == InitContrib /\ [][NextContrib]_vars

\* _get_contribution_data returned a result
Computed == cpc = "done" /\ contribution_data.kind = "ok"

\* the day after the date s, and the month after the month s
NextDay(s) == IF s[3] < days_in_month(s[1], s[2]) THEN <<s[1], s[2], s[3] + 1>>
              ELSE IF s[2] < 12 THEN <<s[1], s[2] + 1, 1>>
              ELSE <<s[1] + 1, 1, 1>>

NextMonth(s) == IF s[2] < 12 THEN <<s[1], s[2] + 1>> ELSE <<s[1] + 1, 1>>

Today == ord2ymd(now.day)

\* C13. Daily series shape: the returned daily list has exactly 60 entries, one per
\* calendar day from today-59 to today in chronological order, no date repeated
\* and none outside that interval.
DailySeriesShape ==
    Computed =>
        /\ Len(contribution_data.daily) = 60
        /\ contribution_data.daily[60].date = Today
        /\ \A i \in 1..59 :
              contribution_data.daily[i + 1].date = NextDay(contribution_data.daily[i].date)
        /\ \A i \in 1..60 : contribution_data.daily[i].date = ord2ymd(now.day - 60 + i)

\* the 60 days include 29 February and the days around it
DailySeriesShapeWitness ==
    /\ Computed
    /\ Len(events) > 0
    /\ \E i \in 2..59 : /\ contribution_data.daily[i].date = <<2024, 2, 29>>
                        /\ contribution_data.daily[i - 1].date = <<2024, 2, 28>>
                        /\ contribution_data.daily[i + 1].date = <<2024, 3, 1>>

\* the events the loop reached: those before the first one it cannot parse
Processed == {i \in 1..Len(events) : \A j \in 1..i : events[j].created_at # <<>>}

\* the processed events that are not older than 365 days
Retained == {i \in Processed :
                ~before(strptime(events[i].created_at), plus_days(now, 0 - 365))}

EventsOn(day) == Cardinality({i \in Retained : strptime(events[i].created_at).day = day})

\* the sum of the materialised counts of the 366 days today-365 .. today: an event
\* counts on its day, and every seventh day without an event counts 1
YearSum ==
    LET first  == now.day - 365
        stamps == {<<j, strptime(events[j].created_at).day>> : j \in Retained}
    IN  Cardinality({p \in stamps : p[2] \in first..now.day})
        + Cardinality({k \in 0..365 : k % 7 = 0 /\ \A p \in stamps : p[2] # first + k})

\* C14 as stated. contributions_last_year is the sum of the counts of the 60
\* entries of the returned daily list.
YearIsReturnedWindow ==
    Computed => contribution_data.contributions_last_year
                    = sum_counts(contribution_data.daily)

\* C14, amended. contributions_last_year is the sum of the counts of all 366
\* entries of the daily walk from today-365 to today; the returned daily list
\* holds the last 60 of them only.
YearIsWholeWalk ==
    Computed =>
        /\ Len(daily_list) = 366
        /\ contribution_data.contributions_last_year = YearSum
        /\ contribution_data.contributions_last_year = sum_counts(daily_list)
        /\ contribution_data.daily = SubSeq(daily_list, 307, 366)

YearIsWholeWalkWitness ==
    /\ Computed
    /\ Retained # {}
    /\ contribution_data.contributions_last_year > sum_counts(contribution_data.daily)

\* C18 as stated. total is the sum of the daily buckets of the retained events, or,
\* when that sum is zero, the sum of the counts of the returned 60-entry list.
TotalFallsBackToWindow ==
    Computed => contribution_data.total =
                    IF Cardinality(Retained) # 0 THEN Cardinality(Retained)
                    ELSE sum_counts(contribution_data.daily)

\* C18, amended. total is the sum of the daily buckets of the retained events, or,
\* when that sum is zero, the sum of the counts of all 366 entries of the daily
\* walk, of which the returned list holds the last 60.
TotalFallsBackToWalk ==
    Computed =>
        /\ sum_values(daily_contributions) = Cardinality(Retained)
        /\ contribution_data.total =
              IF Cardinality(Retained) # 0 THEN Cardinality(Retained) ELSE YearSum

\* events are listed but none is retained: total is the sum over the whole walk
TotalFallsBackToWalkWitness ==
    /\ Computed
    /\ Retained = {} /\ Len(events) > 0
    /\ contribution_data.total = YearSum
    /\ contribution_data.total > sum_counts(contribution_data.daily)

\* the retained events of the month s
BucketOf(s) ==
    Cardinality({i \in Retained : SubSeq(events[i].created_at, 1, 2) = s})

\* the sum of the counts of the entries of daily_list[lo..hi] whose date is in month s
RECURSIVE month_sum(_, _, _)
month_sum(s, lo, hi) ==
    IF lo > hi THEN 0
    ELSE IF lo = hi
         THEN IF SubSeq(daily_list[lo].date, 1, 2) = s THEN daily_list[lo].count ELSE 0
         ELSE month_sum(s, lo, (lo + hi) \div 2) + month_sum(s, (lo + hi) \div 2 + 1, hi)

\* C19. Monthly recount: every month of the monthly walk is emitted with its
\* bucketed event count when that is not zero, and otherwise with the sum of the
\* counts of the materialised daily entries whose date is in that month.
MonthlyRecount ==
    Computed =>
        \A j \in 1..Len(monthly_list) :
            monthly_list[j].count =
                IF BucketOf(monthly_list[j].month) # 0 THEN BucketOf(monthly_list[j].month)
                ELSE month_sum(monthly_list[j].month, 1, Len(daily_list))

\* C20. Monthly series shape: for every now the returned monthly list has exactly
\* 12 entries, for 12 consecutive calendar months in chronological order, the
\* last of which is the current month.
MonthlySeriesShape ==
    Computed =>
        /\ Len(contribution_data.monthly) = 12
        /\ contribution_data.monthly[12].month = SubSeq(Today, 1, 2)
        /\ \A i \in 1..11 :
              contribution_data.monthly[i + 1].month
                  = NextMonth(contribution_data.monthly[i].month)

\* the walk itself has 12 months only: today-365 falls in the month after the
\* current month of last year
MonthlySeriesShapeWitness ==
    /\ Computed
    /\ Len(monthly_list) = 12
    /\ Today[2] = 12 /\ Today[3] = 31
    /\ contribution_data.monthly[1].month = <<Today[1], 1>>

\* C21. Daily materialisation: the walk has the 366 days from today-365 to today;
\* with i the 0-based position of a day in it, the materialised count of the day is
\* its bucketed event count, except that it is 1 when the bucketed count is 0 and i
\* is a multiple of 7; a day with bucketed count 0 at another position is emitted
\* as 0, and a bucketed count that is not 0 is never altered.
DailyMaterialisation ==
    Computed =>
        LET first  == now.day - 365
            stamps == {<<j, strptime(events[j].created_at).day>> : j \in Retained}
            on(d)  == Cardinality({p \in stamps : p[2] = d})
        IN  /\ Len(daily_list) = 366
            /\ \A i \in 0..365 :
                  LET entry    == daily_list[i + 1]
                      bucketed == on(first + i)
                  IN  /\ ymd2ord(entry.date[1], entry.date[2], entry.date[3]) = first + i
                      /\ dict_get(daily_contributions, entry.date) = bucketed
                      /\ entry.count = IF bucketed # 0 THEN bucketed
                                       ELSE IF i % 7 = 0 THEN 1 ELSE 0

\* two events on the first day of the walk, whose position is a multiple of 7
DailyMaterialisationWitness ==
    /\ Computed
    /\ daily_list[1].count = 2
    /\ daily_list[2].count = 0
    /\ daily_list[8].count = 1
    /\ daily_list[366].count = 0

\* the loop ran over every event: none raised
PrimaryPath == Computed /\ Processed = 1..Len(events)

\* the sum of the payload sizes of the retained push events among the first k
RECURSIVE pushed(_)
pushed(k) ==
    IF k = 0 THEN 0
    ELSE (IF k \in Retained /\ events[k].type = "PushEvent" THEN events[k].size ELSE 0)
         + pushed(k - 1)

OfType(type) == {i \in Retained : events[i].type = type}

\* C22. Event classification on the primary path: over the events not older than
\* 365 days, commits_last_year is the sum of the payload sizes of the push events,
\* prs_last_year the number of pull-request events and issues_last_year the
\* number of issue events; events of another type and events older than 365 days
\* change none of the three.
EventClassification ==
    PrimaryPath =>
        /\ contribution_data.commits_last_year = pushed(Len(events))
        /\ contribution_data.prs_last_year = Cardinality(OfType("PullRequestEvent"))
        /\ contribution_data.issues_last_year = Cardinality(OfType("IssuesEvent"))

\* one push event of size 3 and one issue event that is older than 365 days
EventClassificationWitness ==
    /\ PrimaryPath
    /\ Len(events) = 2
    /\ contribution_data.commits_last_year = 3
    /\ contribution_data.issues_last_year = 0
    /\ \E i \in 1..Len(events) : events[i].type = "IssuesEvent" /\ i \notin Retained

\* the owner/repo identifiers of the retained events on repositories of other owners
External ==
    {events[i].repo : i \in {j \in Retained : /\ Len(events[j].repo) = 2
                                                /\ events[j].repo[1] # Queried}}

\* C23. contributed_to is the number of distinct owner/repo identifiers among the
\* retained events, those not older than 365 days, whose owner differs from the
\* queried username; events on the user's own repositories and repeated events on
\* the same repository of another owner do not increase it.
ContributedTo ==
    Computed => contribution_data.contributed_to = Cardinality(External)

\* two retained events on the same repository of another owner
ContributedToWitness ==
    /\ Computed
    /\ contribution_data.contributed_to = 1
    /\ Cardinality({i \in Retained : events[i].repo = <<"torvalds", "linux">>}) = 2

(***************************************************************************)
(* get_user_stats, lines 88-91: _get_contribution_data, then                *)
(* _calculate_streaks on the daily list it returned.  now is one of the     *)
(* days at which the year, the leap day or the month turns.                 *)
(***************************************************************************)
RecordNows ==
    {[day |-> ymd2ord(FirstYear, md[1], md[2]), time |-> 1] :
        md \in {<<1, 1>>, <<2, 29>>, <<3, 1>>, <<12, 31>>}}

\* lines 91, 325-328 and 342: the daily list is handed over, its date strings are
\* parsed, and the clock is read again: the date may have changed since line 221
PassDaily ==
    /\ cpc = "done"
    /\ contribution_data.kind = "ok"
    /\ spc = "idle"
    /\ daily' = [i \in 1..Len(contribution_data.daily) |->
                    [date  |-> ymd2ord(contribution_data.daily[i].date[1],
                                       contribution_data.daily[i].date[2],
                                       contribution_data.daily[i].date[3]),
                     count |-> contribution_data.daily[i].count]]
    /\ today' \in {now.day, now.day + 1}
    /\ spc' = "start"
    /\ UNCHANGED <<streaks, clientVars, raceVars, langVars, pageVars, contribVars>>

InitRecord ==
    /\ now \in RecordNows
    /\ events = <<>>
    /\ daily_contributions = <<>>
    /\ monthly_contributions = <<>>
    /\ counted = Unbound
    /\ daily_list = <<>>
    /\ monthly_list = <<>>
    /\ contribution_data = NoResult
    /\ cpc = "start"
    /\ ClientIdle
    /\ RaceIdle
    /\ StreaksIdle
    /\ LangIdle
    /\ PagesIdle

NextRecord ==
    \/ NextContrib
    \/ PassDaily
    \/ CalculateStreaks

SpecRecord == InitRecord /\ [][NextRecord]_vars

\* both functions have returned
RecordDone == cpc = "done" /\ spc = "done"

\* a retained event is dated on the day the streak calculation takes for today
EventToday == \E i \in Retained : strptime(events[i].created_at).day = today

\* C30 as stated. current_streak is never exactly 1: it is 0 when today has no
\* event and at least 2 when it has one.
NeverOneDayStreak ==
    RecordDone =>
        /\ streaks.current # 1
        /\ ~EventToday => streaks.current = 0
        /\ EventToday => streaks.current >= 2

\* C30, amended. current_streak is never exactly 1.  When the date is the same at
\* both readings of the clock, it is 0 when today has no event and at least 2 when
\* it has one, yesterday's materialised count being at least 1; when the date
\* changed between the readings, it is 0.
NeverOneDayStreakOnOneDate ==
    RecordDone =>
        /\ streaks.current # 1
        /\ contribution_data.daily[59].count >= 1
        /\ today = now.day =>
              /\ ~EventToday => streaks.current = 0
              /\ EventToday => streaks.current >= 2
        /\ today # now.day => streaks.current = 0

\* an event today and none yesterday: the streak has two days
NeverOneDayStreakOnOneDateWitness ==
    /\ RecordDone
    /\ today = now.day
    /\ EventToday
    /\ \A i \in Retained : strptime(events[i].created_at).day # today - 1
    /\ streaks.current = 2

(***************************************************************************)
(* Two get_user_stats calls for one username on an empty cache, lines      *)
(* 62-124.  The calls share the cache and the clock and nothing else; each *)
(* is answered by the upstream on its own.  A call is cut where it meets   *)
(* what is shared: cache.get, the reading of the clock, cache.set.  The    *)
(* repository and language requests add no field to the model's record and *)
(* are part of the step of the profile request.                            *)
(***************************************************************************)
MaxTicks == 1

RaceStart == [day |-> ymd2ord(FirstYear, 3, 1), time |-> 1]

\* an event created 365 days before RaceStart, one unit of time after it
BoundaryEvent ==
    [created_at |-> ord2ymd(RaceStart.day - YearDays) \o <<RaceStart.time + 1>>,
     type |-> "PullRequestEvent", size |-> 0, repo |-> <<"torvalds", "linux">>]

\* Bodies of GET /users/{username}/events
RaceListings == {<<>>, <<BoundaryEvent>>}

\* lines 221-263 and 301-310: the counters _get_contribution_data returns for a
\* listing whose events all carry created_at, the clock having been read as n
contribution_tally(listing, n) ==
    LET acc == events_loop(listing, 1, plus_days(n, 0 - YearDays),
                           [daily |-> <<>>, monthly |-> <<>>, locals |-> Bound,
                            raised |-> FALSE])
    IN  [commits_last_year |-> acc.locals.commits_last_year,
         prs_last_year |-> acc.locals.prs_last_year,
         issues_last_year |-> acc.locals.issues_last_year,
         contributed_to |-> Cardinality(acc.locals.contributed_to),
         contributed_to_bound |-> TRUE]

\* time passes between two steps of the calls
Tick ==
    /\ clock.time < RaceStart.time + 2 * MaxTicks
    /\ clock' = [clock EXCEPT !.time = @ + 2]
    /\ UNCHANGED <<rpc, rdata, rnow, rlist, rout, clientVars, streakVars, langVars,
                   pageVars, contribVars>>

\* lines 66-72
RaceLookup(c) ==
    /\ rpc[c] = "start"
    /\ IF cache_hit(cache[Queried])
       THEN /\ rout' = [rout EXCEPT ![c] = Returned(json_loads(cache[Queried]))]
            /\ rpc' = [rpc EXCEPT ![c] = "done"]
       ELSE /\ rpc' = [rpc EXCEPT ![c] = "profile"]
            /\ UNCHANGED rout
    /\ UNCHANGED <<clock, rdata, rnow, rlist, clientVars, streakVars, langVars,
                   pageVars, contribVars>>

\* lines 74-85 and 126-162: the profile request is answered or fails
RaceFetchProfile(c) ==
    /\ rpc[c] = "profile"
    /\ \E response \in {OkResponse, HttpFailure(500, NoHeader)} :
         IF response.kind = "ok"
         THEN /\ \E data \in Profiles : rdata' = [rdata EXCEPT ![c] = data]
              /\ rpc' = [rpc EXCEPT ![c] = "contribution"]
              /\ UNCHANGED rout
         ELSE /\ rout' = [rout EXCEPT ![c] = handle_exception(response, token)]
              /\ rpc' = [rpc EXCEPT ![c] = "done"]
              /\ UNCHANGED rdata
    /\ UNCHANGED <<clock, rnow, rlist, clientVars, streakVars, langVars, pageVars,
                   contribVars>>

\* lines 88, 221 and 230: the clock is read, then the events are requested
RaceContribution(c) ==
    /\ rpc[c] = "contribution"
    /\ rnow' = [rnow EXCEPT ![c] = clock]
    /\ \E listing \in RaceListings : rlist' = [rlist EXCEPT ![c] = listing]
    /\ rpc' = [rpc EXCEPT ![c] = "store"]
    /\ UNCHANGED <<clock, rdata, rout, clientVars, streakVars, langVars, pageVars,
                   contribVars>>

\* lines 93-124: the record is assembled, written to the cache and returned
RaceStore(c) ==
    /\ rpc[c] = "store"
    /\ LET stats == GitHubStats(Queried, rdata[c], contribution_tally(rlist[c], rnow[c]))
       IN  /\ cache' = cache_set(cache, Queried, stats)
           /\ rout' = [rout EXCEPT ![c] = Returned(stats)]
    /\ rpc' = [rpc EXCEPT ![c] = "done"]
    /\ UNCHANGED <<clock, rdata, rnow, rlist, token, pc, username, reqs, user_data,
                   page, all_items, repos, lang_i, contribution, outcome, fresh,
                   started_fresh, failure, returned_on_miss, http_status,
                   streakVars, langVars, pageVars, contribVars>>

InitRace ==
    /\ clock = RaceStart
    /\ rpc = [c \in RaceCalls |-> "start"]
    /\ rdata = [c \in RaceCalls |-> NoData]
    /\ rnow = [c \in RaceCalls |-> NoReading]
    /\ rlist = [c \in RaceCalls |-> <<>>]
    /\ rout = [c \in RaceCalls |-> NoOutcome]
    /\ ClientIdle
    /\ StreaksIdle
    /\ LangIdle
    /\ PagesIdle
    /\ ContribIdle

NextRace ==
    \/ Tick
    \/ \E c \in RaceCalls : RaceLookup(c)
    \/ \E c \in RaceCalls : RaceFetchProfile(c)
    \/ \E c \in RaceCalls : RaceContribution(c)
    \/ \E c \in RaceCalls : RaceStore(c)

SpecRace == InitRace /\ [][NextRace]_vars

\* both calls observed a miss, performed the fetch and returned a record
BothFetched ==
    \A c \in RaceCalls : rpc[c] = "done" /\ rout[c].kind = "ok" /\ rnow[c] # NoReading

\* the upstream answered both calls the same
SameAnswers == rdata[1] = rdata[2] /\ rlist[1] = rlist[2]

\* the cache holds the whole text of the record one of the calls returned
OneCompleteRecord ==
    \E c \in RaceCalls : cache[Queried] = json_dumps(rout[c].stats)

====
